---- MODULE Spec2Model ----
(***************************************************************************)
(* A model of rsync_system_backup/cli.py: the command line front end that  *)
(* parses its arguments, fills the option dictionaries, hands them to the  *)
(* execution engine and turns the outcome into log records and an exit     *)
(* status.                                                                 *)
(*                                                                         *)
(* Strings are TLA+ strings (sequences of characters), dictionaries are    *)
(* functions whose domain is the set of keys present.                      *)
(***************************************************************************)
EXTENDS Integers, Sequences, FiniteSets, TLC

VARIABLES
    argv,          \* sys.argv[1:]
    environ,       \* os.environ, restricted to RSYNC_MODULE_PATH
    pc,            \* position of main(): getopt, options, dispatch, triage, exit
    options,       \* the (option, value) pairs of getopt
    turn,          \* the place in options of the pair the loop handles next, or
                   \* of the pair at which the loop ended the run
    arguments,     \* the positional arguments of getopt
    context_opts,  \* dict
    program_opts,  \* dict
    dest_opts,     \* dict
    verbosity,     \* net effect of coloredlogs.increase/decrease_verbosity
    tunnels,       \* number of SecureTunnel objects constructed
    destinations,  \* number of Destination objects constructed
    usage_shown,   \* number of times usage() rendered the usage text
    stderr,        \* the messages of warning(), in order
    log,           \* the records of logger, in order
    raised,        \* the exception being handled, "" when there is none
    engine,        \* RsyncSystemBackup: objects built, their options, calls of execute()
    tty,           \* connected_to_terminal() when the failure of the engine is
                   \* handled: "yes" or "no", and "unasked" before that
    exit_status    \* the exit status of the process, -1 while it runs

vars == <<argv, environ, pc, options, turn, arguments, context_opts, program_opts,
          dest_opts, verbosity, tunnels, destinations, usage_shown, stderr,
          log, raised, engine, tty, exit_status>>

(***************************************************************************)
(* Bounds of the model.                                                    *)
(***************************************************************************)
MaxArgs == 4

(***************************************************************************)
(* Python strings.                                                         *)
(***************************************************************************)
Char(s, i) == SubSeq(s, i, i)

StartsWith(s, p) == Len(p) <= Len(s) /\ SubSeq(s, 1, Len(p)) = p

EndsWith(s, p) == Len(p) <= Len(s) /\ SubSeq(s, Len(s) - Len(p) + 1, Len(s)) = p

\* s.find(c): the first position of the character c in s, 0 when there is none.
Find(s, c) ==
    IF \E i \in 1..Len(s) : Char(s, i) = c
    THEN CHOOSE i \in 1..Len(s) :
            Char(s, i) = c /\ \A j \in 1..(i - 1) : Char(s, j) # c
    ELSE 0

\* s.rfind(c): the last position of the character c in s, 0 when there is none.
RFind(s, c) ==
    IF \E i \in 1..Len(s) : Char(s, i) = c
    THEN CHOOSE i \in 1..Len(s) :
            Char(s, i) = c /\ \A j \in (i + 1)..Len(s) : Char(s, j) # c
    ELSE 0

\* s.partition(c): (head, sep, tail) around the first c, (s, "", "") without one.
Partition(s, c) ==
    LET i == Find(s, c) IN
    IF i = 0 THEN <<s, "", "">>
    ELSE <<SubSeq(s, 1, i - 1), c, SubSeq(s, i + 1, Len(s))>>

\* s.rpartition(c): (head, sep, tail) around the last c, ("", "", s) without one.
RPartition(s, c) ==
    LET i == RFind(s, c) IN
    IF i = 0 THEN <<"", "", s>>
    ELSE <<SubSeq(s, 1, i - 1), c, SubSeq(s, i + 1, Len(s))>>

UpperCase == "ABCDEFGHIJKLMNOPQRSTUVWXYZ"
LowerCase == "abcdefghijklmnopqrstuvwxyz"

LowerChar(c) ==
    IF Find(UpperCase, c) # 0 THEN Char(LowerCase, Find(UpperCase, c)) ELSE c

RECURSIVE Lower(_)
\* s.lower()
Lower(s) == IF s = "" THEN "" ELSE LowerChar(Char(s, 1)) \o Lower(Tail(s))

IsSpace(c) == c \in {" ", "\t", "\n"}

RECURSIVE LStrip(_)
LStrip(s) == IF s # "" /\ IsSpace(Char(s, 1)) THEN LStrip(Tail(s)) ELSE s

RECURSIVE RStrip(_)
RStrip(s) ==
    IF s # "" /\ IsSpace(Char(s, Len(s)))
    THEN RStrip(SubSeq(s, 1, Len(s) - 1))
    ELSE s

\* s.strip()
Strip(s) == RStrip(LStrip(s))

Digits == "0123456789"

IsDigit(c) == Find(Digits, c) # 0

DigitValue(c) == Find(Digits, c) - 1

RECURSIVE DecimalValue(_)
\* The value of a string of digits, the underscores between them skipped.
DecimalValue(s) ==
    IF s = "" THEN 0
    ELSE IF Char(s, Len(s)) = "_" THEN DecimalValue(SubSeq(s, 1, Len(s) - 1))
    ELSE 10 * DecimalValue(SubSeq(s, 1, Len(s) - 1)) + DigitValue(Char(s, Len(s)))

\* int(s): surrounding whitespace is dropped, one sign is allowed, the rest
\* must be decimal digits, with single underscores between digits allowed;
\* anything else raises ValueError.
ParseInt(s) ==
    LET t == Strip(s)
        signed == t # "" /\ Char(t, 1) \in {"+", "-"}
        body == IF signed THEN Tail(t) ELSE t
        good == /\ body # ""
                /\ \A i \in 1..Len(body) :
                      \/ IsDigit(Char(body, i))
                      \/ /\ Char(body, i) = "_"
                         /\ 1 < i /\ i < Len(body)
                         /\ IsDigit(Char(body, i - 1))
                         /\ IsDigit(Char(body, i + 1))
    IN  IF ~good THEN [ok |-> FALSE, value |-> 0]
        ELSE [ok |-> TRUE,
              value |-> IF signed /\ Char(t, 1) = "-"
                        THEN 0 - DecimalValue(body)
                        ELSE DecimalValue(body)]

(***************************************************************************)
(* Python dictionaries.                                                    *)
(***************************************************************************)
EmptyDict == [k \in {} |-> FALSE]

Has(d, k) == k \in DOMAIN d

\* d[k] = v
Put(d, k, v) == [x \in (DOMAIN d) \cup {k} |-> IF x = k THEN v ELSE d[x]]

\* d.setdefault(k, v)
SetDefault(d, k, v) == IF Has(d, k) THEN d ELSE Put(d, k, v)

(***************************************************************************)
(* getopt.gnu_getopt with the option tables of main().                     *)
(***************************************************************************)
\* The short options with a letter that no branch of the loop names.
ShortOpts_Extra == "bsrm:c:t:i:unx:fvqhz"

ShortOpts == "bsrm:c:t:i:unx:fvqh"

LongOpts == <<"backup", "snapshot", "rotate", "mount=", "crypto=", "tunnel=",
              "ionice=", "no-sudo", "dry-run", "multi-fs", "exclude=", "force",
              "disable-notifications", "verbose", "quiet", "help">>

\* The result of a failed parse: GetoptError.
GetoptError == [ok |-> FALSE, opts |-> <<>>, args |-> <<>>]

\* short_has_arg: "yes", "no", or "unknown" (GetoptError: not recognized).
ShortHasArg(opt) ==
    LET i == Find(ShortOpts, opt) IN
    IF opt # ":" /\ i # 0
    THEN IF i < Len(ShortOpts) /\ Char(ShortOpts, i + 1) = ":" THEN "yes" ELSE "no"
    ELSE "unknown"

\* long_has_args: the matching long option and whether it takes a value;
\* an exact match wins, otherwise the prefix must be unique.
LongHasArgs(opt) ==
    LET poss == {i \in 1..Len(LongOpts) : StartsWith(LongOpts[i], opt)}
        only == LongOpts[CHOOSE i \in poss : TRUE]
    IN  IF poss = {} THEN [ok |-> FALSE, has_arg |-> FALSE, opt |-> opt]
        ELSE IF \E i \in poss : LongOpts[i] = opt
             THEN [ok |-> TRUE, has_arg |-> FALSE, opt |-> opt]
        ELSE IF \E i \in poss : LongOpts[i] = opt \o "="
             THEN [ok |-> TRUE, has_arg |-> TRUE, opt |-> opt]
        ELSE IF Cardinality(poss) > 1
             THEN [ok |-> FALSE, has_arg |-> FALSE, opt |-> opt]
        ELSE IF EndsWith(only, "=")
             THEN [ok |-> TRUE, has_arg |-> TRUE,
                   opt |-> SubSeq(only, 1, Len(only) - 1)]
        ELSE [ok |-> TRUE, has_arg |-> FALSE, opt |-> only]

\* do_longs: text is the argument without its leading "--".
DoLongs(opts, text, args) ==
    LET i == Find(text, "=")
        name == IF i = 0 THEN text ELSE SubSeq(text, 1, i - 1)
        given == i # 0
        optarg == IF given THEN SubSeq(text, i + 1, Len(text)) ELSE ""
        m == LongHasArgs(name)
    IN  IF ~m.ok THEN GetoptError
        ELSE IF m.has_arg /\ ~given
             THEN IF args = <<>> THEN GetoptError
                  ELSE [ok |-> TRUE,
                        opts |-> Append(opts, <<"--" \o m.opt, Head(args)>>),
                        args |-> Tail(args)]
        ELSE IF ~m.has_arg /\ given THEN GetoptError
        ELSE [ok |-> TRUE,
              opts |-> Append(opts, <<"--" \o m.opt, optarg>>),
              args |-> args]

RECURSIVE DoShorts(_, _, _)
\* do_shorts: optstring is the argument without its leading "-".
DoShorts(opts, optstring, args) ==
    IF optstring = "" THEN [ok |-> TRUE, opts |-> opts, args |-> args]
    ELSE LET opt == Char(optstring, 1)
             rest == Tail(optstring)
             has == ShortHasArg(opt)
         IN  IF has = "unknown" THEN GetoptError
             ELSE IF has = "yes"
                  THEN IF rest = ""
                       THEN IF args = <<>> THEN GetoptError
                            ELSE [ok |-> TRUE,
                                  opts |-> Append(opts, <<"-" \o opt, Head(args)>>),
                                  args |-> Tail(args)]
                       ELSE [ok |-> TRUE,
                             opts |-> Append(opts, <<"-" \o opt, rest>>),
                             args |-> args]
             ELSE DoShorts(Append(opts, <<"-" \o opt, "">>), rest, args)

RECURSIVE GnuGetoptLoop(_, _, _)
GnuGetoptLoop(opts, prog_args, args) ==
    IF args = <<>> THEN [ok |-> TRUE, opts |-> opts, args |-> prog_args]
    ELSE IF Head(args) = "--"
         THEN [ok |-> TRUE, opts |-> opts, args |-> prog_args \o Tail(args)]
    ELSE IF StartsWith(Head(args), "--")
         THEN LET r == DoLongs(opts, SubSeq(Head(args), 3, Len(Head(args))), Tail(args))
              IN  IF r.ok THEN GnuGetoptLoop(r.opts, prog_args, r.args) ELSE GetoptError
    ELSE IF StartsWith(Head(args), "-") /\ Head(args) # "-"
         THEN LET r == DoShorts(opts, Tail(Head(args)), Tail(args))
              IN  IF r.ok THEN GnuGetoptLoop(r.opts, prog_args, r.args) ELSE GetoptError
    ELSE GnuGetoptLoop(opts, Append(prog_args, Head(args)), Tail(args))

\* getopt.gnu_getopt(args, ShortOpts, LongOpts), POSIXLY_CORRECT not set.
GnuGetopt(args) == GnuGetoptLoop(<<>>, <<>>, args)

(***************************************************************************)
(* The collaborators of main().                                            *)
(***************************************************************************)
\* rsync_system_backup.destinations.RSYNCD_PORT
RSYNCD_PORT == 873

\* executor.validate_ionice_class accepts these names and raises ValueError
\* for every other value.
IoniceClasses == {"idle", "best-effort", "realtime"}

\* SecureTunnel(**tunnel_opts), Destination(**dest_opts) and
\* create_context(**context_opts): an object is the dict it was built from.
SecureTunnel(tunnel_opts) == tunnel_opts
Destination(opts) == opts
create_context(opts) == [context |-> "local", options |-> opts]

\* What RsyncSystemBackup(...).execute() can do: return, or raise an exception
\* of one of these classes.
EngineOutcomes == {"returned", "MissingBackupDiskError", "RsyncSystemBackupError",
                   "Exception"}

\* isinstance(e, cls) for the exception classes main() distinguishes:
\* MissingBackupDiskError is a RsyncSystemBackupError, which is an Exception.
IsInstance(e, cls) ==
    \/ cls = "Exception"
    \/ cls = "RsyncSystemBackupError"
        /\ e \in {"RsyncSystemBackupError", "MissingBackupDiskError"}
    \/ cls = "MissingBackupDiskError" /\ e = "MissingBackupDiskError"

(***************************************************************************)
(* enable_explicit_action(options, explicit_action)                        *)
(***************************************************************************)
ActionKeys == {"backup_enabled", "snapshot_enabled", "rotate_enabled"}

\* DisableImplicit with the default overwriting a key that is present.
DisableImplicit_Overwrite(opts, implicit_action, explicit_action) ==
    IF implicit_action # explicit_action
    THEN Put(opts, implicit_action, FALSE)
    ELSE opts

\* DisableImplicit without the default.
DisableImplicit_Skip(opts, implicit_action, explicit_action) == opts

\* One turn of the loop over the three actions.
DisableImplicit(opts, implicit_action, explicit_action) ==
    IF implicit_action # explicit_action
    THEN SetDefault(opts, implicit_action, FALSE)
    ELSE opts

\* enable_explicit_action writing the explicit action with setdefault as well.
enable_explicit_action_SetDefault(opts, explicit_action) ==
    DisableImplicit(
        DisableImplicit(
            DisableImplicit(SetDefault(opts, explicit_action, TRUE),
                            "backup_enabled", explicit_action),
            "snapshot_enabled", explicit_action),
        "rotate_enabled", explicit_action)

\* enable_explicit_action building the three keys in a fresh dictionary.
enable_explicit_action_Fresh(opts, explicit_action) ==
    DisableImplicit(
        DisableImplicit(
            DisableImplicit(Put(EmptyDict, explicit_action, TRUE),
                            "backup_enabled", explicit_action),
            "snapshot_enabled", explicit_action),
        "rotate_enabled", explicit_action)

\* Lines 147 to 150: the explicit action, then the loop over the three.
enable_explicit_action(opts, explicit_action) ==
    DisableImplicit(
        DisableImplicit(
            DisableImplicit(Put(opts, explicit_action, TRUE),
                            "backup_enabled", explicit_action),
            "snapshot_enabled", explicit_action),
        "rotate_enabled", explicit_action)

(***************************************************************************)
(* The body of the loop over the options: the if/elif chain of main().     *)
(* st holds the part of the state a branch can change; the result adds     *)
(* how the branch ends: "next" (the loop goes on), "return" (main returns) *)
(* or the exception raised.                                                *)
(***************************************************************************)
Continue(st) == [st EXCEPT !.ends = "next"]

Raise(st, exception) == [st EXCEPT !.ends = exception]

LogRecord(level, message, exc_info) ==
    [level |-> level, message |-> message, exc_info |-> exc_info]

PortError == "ValueError: invalid literal for int()"

IoniceError == "ValueError: Invalid I/O scheduling class!"

\* TunnelBranch with the user split off at the first "@", not the last.
TunnelBranch_FirstAt(st, value) ==
    LET user_rest == Partition(value, "@")
        rest == IF user_rest[2] = "" THEN value ELSE user_rest[3]
        ssh_user == IF user_rest[2] = "" THEN "" ELSE user_rest[1]
        alias_port == Partition(rest, ":")
        tunnel_opts == [ssh_alias |-> alias_port[1], ssh_user |-> ssh_user,
                        remote_port |-> RSYNCD_PORT]
        port == ParseInt(alias_port[3])
    IN  IF alias_port[3] # "" /\ ~port.ok
        THEN Raise(st, PortError)
        ELSE Continue([st EXCEPT
                 !.dest_opts = Put(@, "ssh_tunnel",
                     SecureTunnel(IF alias_port[3] # ""
                                  THEN Put(tunnel_opts, "port", port.value)
                                  ELSE tunnel_opts)),
                 !.tunnels = @ + 1])

\* TunnelBranch with the tunnel of an earlier flag kept.
TunnelBranch_FirstWins(st, value) ==
    LET user_rest == RPartition(value, "@")
        alias_port == Partition(user_rest[3], ":")
        tunnel_opts == [ssh_alias |-> alias_port[1], ssh_user |-> user_rest[1],
                        remote_port |-> RSYNCD_PORT]
        port == ParseInt(alias_port[3])
    IN  IF alias_port[3] # "" /\ ~port.ok
        THEN Raise(st, PortError)
        ELSE Continue([st EXCEPT
                 !.dest_opts = SetDefault(@, "ssh_tunnel",
                     SecureTunnel(IF alias_port[3] # ""
                                  THEN Put(tunnel_opts, "port", port.value)
                                  ELSE tunnel_opts)),
                 !.tunnels = @ + 1])

\* TunnelBranch with the tunnel built before the port is converted.
TunnelBranch_BuildFirst(st, value) ==
    LET user_rest == RPartition(value, "@")
        alias_port == Partition(user_rest[3], ":")
        tunnel_opts == [ssh_alias |-> alias_port[1], ssh_user |-> user_rest[1],
                        remote_port |-> RSYNCD_PORT]
        port == ParseInt(alias_port[3])
        built == [st EXCEPT
                    !.dest_opts = Put(@, "ssh_tunnel", SecureTunnel(tunnel_opts)),
                    !.tunnels = @ + 1]
    IN  IF alias_port[3] # "" /\ ~port.ok
        THEN Raise(built, PortError)
        ELSE Continue([built EXCEPT !.dest_opts =
                 Put(@, "ssh_tunnel",
                     IF alias_port[3] # ""
                     THEN Put(tunnel_opts, "port", port.value)
                     ELSE tunnel_opts)])

\* The '-t', '--tunnel' branch.
TunnelBranch(st, value) ==
    LET user_rest == RPartition(value, "@")
        ssh_user == user_rest[1]
        alias_port == Partition(user_rest[3], ":")
        ssh_alias == alias_port[1]
        port_number == alias_port[3]
        tunnel_opts == [ssh_alias |-> ssh_alias, ssh_user |-> ssh_user,
                        remote_port |-> RSYNCD_PORT]
        port == ParseInt(port_number)
        with_port == IF port_number # ""
                     THEN Put(tunnel_opts, "port", port.value)
                     ELSE tunnel_opts
    IN  IF port_number # "" /\ ~port.ok
        THEN Raise(st, PortError)
        ELSE Continue([st EXCEPT
                 !.dest_opts = Put(@, "ssh_tunnel", SecureTunnel(with_port)),
                 !.tunnels = @ + 1])

\* IoniceBranch without the validation.
IoniceBranch_Unvalidated(st, value) ==
    Continue([st EXCEPT !.program_opts = Put(@, "ionice", Strip(Lower(value)))])

\* The '-i', '--ionice' branch.
IoniceBranch(st, value) ==
    LET v == Strip(Lower(value)) IN
    IF v \notin IoniceClasses
    THEN Raise(st, IoniceError)
    ELSE Continue([st EXCEPT !.program_opts = Put(@, "ionice", v)])

\* ExcludeBranch with a pattern that is in the list already left out.
ExcludeBranch_NoDuplicates(st, value) ==
    LET with_list == SetDefault(st.program_opts, "exclude_list", <<>>)
        list == with_list["exclude_list"]
    IN  Continue([st EXCEPT !.program_opts =
            Put(with_list, "exclude_list",
                IF \E i \in 1..Len(list) : list[i] = value
                THEN list
                ELSE Append(list, value))])

\* The '-x', '--exclude' branch.
ExcludeBranch(st, value) ==
    LET with_list == SetDefault(st.program_opts, "exclude_list", <<>>) IN
    Continue([st EXCEPT !.program_opts =
        Put(with_list, "exclude_list", Append(with_list["exclude_list"], value))])

\* HelpBranch without the return.
HelpBranch_NoReturn(st) == Continue([st EXCEPT !.usage_shown = @ + 1])

\* The '-h', '--help' branch: usage(__doc__); return.
HelpBranch(st) == [st EXCEPT !.usage_shown = @ + 1, !.ends = "return"]

HandleOption(st, option, value) ==
    IF option \in {"-b", "--backup"}
    THEN Continue([st EXCEPT !.program_opts = enable_explicit_action(@, "backup_enabled")])
    ELSE IF option \in {"-s", "--snapshot"}
    THEN Continue([st EXCEPT !.program_opts = enable_explicit_action(@, "snapshot_enabled")])
    ELSE IF option \in {"-r", "--rotate"}
    THEN Continue([st EXCEPT !.program_opts = enable_explicit_action(@, "rotate_enabled")])
    ELSE IF option \in {"-m", "--mount"}
    THEN Continue([st EXCEPT !.program_opts = Put(@, "mount_point", value)])
    ELSE IF option \in {"-c", "--crypto"}
    THEN Continue([st EXCEPT !.program_opts = Put(@, "crypto_device", value)])
    ELSE IF option \in {"-t", "--tunnel"}
    THEN TunnelBranch(st, value)
    ELSE IF option \in {"-i", "--ionice"}
    THEN IoniceBranch(st, value)
    ELSE IF option \in {"-u", "--no-sudo"}
    THEN Continue([st EXCEPT !.program_opts = Put(@, "sudo_enabled", FALSE)])
    ELSE IF option \in {"-n", "--dry-run"}
    THEN Continue([st EXCEPT
             !.log = Append(@, LogRecord("info", "Performing a dry run", FALSE)),
             !.program_opts = Put(@, "dry_run", TRUE)])
    ELSE IF option \in {"-f", "--force"}
    THEN Continue([st EXCEPT !.program_opts = Put(@, "force", TRUE)])
    ELSE IF option \in {"-x", "--exclude"}
    THEN ExcludeBranch(st, value)
    ELSE IF option = "--multi-fs"
    THEN Continue([st EXCEPT !.program_opts = Put(@, "multi_fs", TRUE)])
    ELSE IF option = "--disable-notifications"
    THEN Continue([st EXCEPT !.program_opts = Put(@, "notifications_enabled", FALSE)])
    ELSE IF option \in {"-v", "--verbose"}
    THEN Continue([st EXCEPT !.verbosity = @ + 1])
    ELSE IF option \in {"-q", "--quiet"}
    THEN Continue([st EXCEPT !.verbosity = @ - 1])
    ELSE IF option \in {"-h", "--help"}
    THEN HelpBranch(st)
    ELSE Raise(st, "Exception: Unhandled option! (programming error)")

\* The tests of the if/elif chain, in its order (lines 45 to 90).
BranchGuards ==
    <<{"-b", "--backup"}, {"-s", "--snapshot"}, {"-r", "--rotate"},
      {"-m", "--mount"}, {"-c", "--crypto"}, {"-t", "--tunnel"},
      {"-i", "--ionice"}, {"-u", "--no-sudo"}, {"-n", "--dry-run"},
      {"-f", "--force"}, {"-x", "--exclude"}, {"--multi-fs"},
      {"--disable-notifications"}, {"-v", "--verbose"}, {"-q", "--quiet"},
      {"-h", "--help"}>>

(***************************************************************************)
(* After the loop: the positional arguments (lines 95 to 108).             *)
(***************************************************************************)
\* ModulePath with a variable that is set but empty counting as a path.
ModulePath_EmptyCounts(env) ==
    IF Has(env, "RSYNC_MODULE_PATH") THEN "set" ELSE ""

\* os.environ.get('RSYNC_MODULE_PATH'), None rendered as "".
ModulePath(env) ==
    IF Has(env, "RSYNC_MODULE_PATH") THEN env["RSYNC_MODULE_PATH"] ELSE ""

ArityError == "Exception: Expected one or two positional arguments!"

\* ResolvePositionals with the arity test off by one.
ResolvePositionals_OffByOne(prog, dest, args, env) ==
    LET unchanged == [program_opts |-> prog, dest_opts |-> dest,
                      arguments |-> args, built |-> 0, shown |-> 0]
        with_source == IF Len(args) = 2 THEN Put(prog, "source", args[1]) ELSE prog
        left == IF Len(args) = 2 THEN Tail(args) ELSE args
        with_expr == Put(dest, "expression", left[1])
    IN  IF Len(args) > 3
        THEN unchanged @@ [ends |-> ArityError]
        ELSE IF left # <<>>
        THEN [program_opts |-> Put(with_source, "destination", Destination(with_expr)),
              dest_opts |-> with_expr, arguments |-> left, built |-> 1,
              shown |-> 0, ends |-> "dispatch"]
        ELSE IF ModulePath(env) = ""
        THEN [unchanged EXCEPT !.shown = 1] @@ [ends |-> "return"]
        ELSE unchanged @@ [ends |-> "dispatch"]

\* ResolvePositionals with the two positional arguments taken in the other order.
ResolvePositionals_Swapped(prog, dest, args, env) ==
    LET unchanged == [program_opts |-> prog, dest_opts |-> dest,
                      arguments |-> args, built |-> 0, shown |-> 0]
        with_source == IF Len(args) = 2 THEN Put(prog, "source", args[2]) ELSE prog
        left == IF Len(args) = 2 THEN <<args[1]>> ELSE args
        with_expr == Put(dest, "expression", left[1])
    IN  IF Len(args) > 2
        THEN unchanged @@ [ends |-> ArityError]
        ELSE IF left # <<>>
        THEN [program_opts |-> Put(with_source, "destination", Destination(with_expr)),
              dest_opts |-> with_expr, arguments |-> left, built |-> 1,
              shown |-> 0, ends |-> "dispatch"]
        ELSE IF ModulePath(env) = ""
        THEN [unchanged EXCEPT !.shown = 1] @@ [ends |-> "return"]
        ELSE unchanged @@ [ends |-> "dispatch"]

ResolvePositionals(prog, dest, args, env) ==
    LET unchanged == [program_opts |-> prog, dest_opts |-> dest,
                      arguments |-> args, built |-> 0, shown |-> 0]
        with_source == IF Len(args) = 2 THEN Put(prog, "source", args[1]) ELSE prog
        left == IF Len(args) = 2 THEN Tail(args) ELSE args
        with_expr == Put(dest, "expression", left[1])
    IN  IF Len(args) > 2
        THEN unchanged @@ [ends |-> ArityError]
        ELSE IF left # <<>>
        THEN [program_opts |-> Put(with_source, "destination", Destination(with_expr)),
              dest_opts |-> with_expr, arguments |-> left, built |-> 1,
              shown |-> 0, ends |-> "dispatch"]
        ELSE IF ModulePath(env) = ""
        THEN [unchanged EXCEPT !.shown = 1] @@ [ends |-> "return"]
        ELSE unchanged @@ [ends |-> "dispatch"]

(***************************************************************************)
(* The handler of the second try block (lines 118 to 136): what is logged  *)
(* and the exit status, given the exception and the answer of              *)
(* connected_to_terminal().                                                *)
(***************************************************************************)
\* HandleFailure with the test of the terminal inverted.
HandleFailure_TerminalInverted(e, connected) ==
    IF IsInstance(e, "RsyncSystemBackupError")
    THEN IF IsInstance(e, "MissingBackupDiskError") /\ connected
         THEN [record |-> LogRecord("info", "Skipping backup", FALSE), status |-> 0]
         ELSE [record |-> LogRecord("error", "Aborting due to error", FALSE),
               status |-> 1]
    ELSE [record |-> LogRecord("error", "Aborting due to unhandled exception!", TRUE),
          status |-> 1]

\* HandleFailure with the traceback on the wrong branch.
HandleFailure_TraceSwapped(e, connected) ==
    IF ~IsInstance(e, "RsyncSystemBackupError")
    THEN [record |-> LogRecord("error", "Aborting due to error", FALSE), status |-> 1]
    ELSE [record |-> LogRecord("error", "Aborting due to unhandled exception!", TRUE),
          status |-> 1]

\* HandleFailure with every recognized error silenced, not only the missing disk.
HandleFailure_AllSilenced(e, connected) ==
    IF IsInstance(e, "RsyncSystemBackupError")
    THEN IF ~connected
         THEN [record |-> LogRecord("info", "Skipping backup", FALSE), status |-> 0]
         ELSE [record |-> LogRecord("error", "Aborting due to error", FALSE),
               status |-> 1]
    ELSE [record |-> LogRecord("error", "Aborting due to unhandled exception!", TRUE),
          status |-> 1]

HandleFailure(e, connected) ==
    IF IsInstance(e, "RsyncSystemBackupError")
    THEN IF IsInstance(e, "MissingBackupDiskError") /\ ~connected
         THEN [record |-> LogRecord("info", "Skipping backup", FALSE), status |-> 0]
         ELSE [record |-> LogRecord("error", "Aborting due to error", FALSE),
               status |-> 1]
    ELSE [record |-> LogRecord("error", "Aborting due to unhandled exception!", TRUE),
          status |-> 1]

(***************************************************************************)
(* The actions: the steps of main().                                       *)
(***************************************************************************)
\* main() returns: the process ends with status 0.
Return ==
    /\ pc' = "exit"
    /\ exit_status' = 0

\* The handler of the first try block: warning("Error: %s", e); sys.exit(1).
UsageError(e) ==
    /\ raised' = e
    /\ stderr' = Append(stderr, "Error: " \o e)
    /\ pc' = "exit"
    /\ exit_status' = 1

\* Lines 39 to 43: getopt.gnu_getopt(sys.argv[1:], ...).
ParseArgv ==
    /\ pc = "getopt"
    /\ LET r == GnuGetopt(argv) IN
       IF r.ok
       THEN /\ options' = r.opts
            /\ arguments' = r.args
            /\ pc' = "options"
            /\ UNCHANGED <<raised, stderr, exit_status>>
       ELSE /\ UsageError("GetoptError")
            /\ UNCHANGED <<options, arguments>>
    /\ UNCHANGED <<argv, environ, turn, context_opts, program_opts, dest_opts,
                   verbosity, tunnels, destinations, usage_shown, log, engine, tty>>

\* Lines 44 to 94: one turn of the loop over the options.
ProcessOption ==
    /\ pc = "options"
    /\ turn <= Len(options)
    /\ LET st == [program_opts |-> program_opts, dest_opts |-> dest_opts,
                  verbosity |-> verbosity, tunnels |-> tunnels, log |-> log,
                  usage_shown |-> usage_shown, ends |-> "next"]
           r == HandleOption(st, options[turn][1], options[turn][2])
       IN  /\ program_opts' = r.program_opts
           /\ dest_opts' = r.dest_opts
           /\ verbosity' = r.verbosity
           /\ tunnels' = r.tunnels
           /\ log' = r.log
           /\ usage_shown' = r.usage_shown
           /\ turn' = IF r.ends = "next" THEN turn + 1 ELSE turn
           /\ IF r.ends = "next"
              THEN UNCHANGED <<pc, raised, stderr, exit_status>>
              ELSE IF r.ends = "return"
              THEN Return /\ UNCHANGED <<raised, stderr>>
              ELSE UsageError(r.ends)
    /\ UNCHANGED <<argv, environ, options, arguments, context_opts, destinations,
                   engine, tty>>

\* Lines 95 to 108: the positional arguments, once the loop is over.
Positionals ==
    /\ pc = "options"
    /\ turn > Len(options)
    /\ LET r == ResolvePositionals(program_opts, dest_opts, arguments, environ) IN
       /\ program_opts' = r.program_opts
       /\ dest_opts' = r.dest_opts
       /\ arguments' = r.arguments
       /\ destinations' = destinations + r.built
       /\ usage_shown' = usage_shown + r.shown
       /\ IF r.ends = "dispatch"
          THEN pc' = "dispatch" /\ UNCHANGED <<raised, stderr, exit_status>>
          ELSE IF r.ends = "return"
          THEN Return /\ UNCHANGED <<raised, stderr>>
          ELSE UsageError(r.ends)
    /\ UNCHANGED <<argv, environ, options, turn, context_opts, verbosity, tunnels,
                   log, engine, tty>>

\* Lines 112 to 117: the source context, the engine and its execute().
\* create_context and the constructor of the engine build their objects;
\* execute() returns or raises.
Dispatch ==
    /\ pc = "dispatch"
    /\ program_opts' = Put(program_opts, "source_context", create_context(context_opts))
    /\ engine' = [built |-> engine.built + 1, options |-> program_opts',
                  executed |-> engine.executed + 1]
    /\ \E outcome \in EngineOutcomes :
          IF outcome = "returned"
          THEN Return /\ UNCHANGED raised
          ELSE /\ raised' = outcome
               /\ pc' = "triage"
               /\ UNCHANGED exit_status
    /\ UNCHANGED <<argv, environ, options, turn, arguments, context_opts, dest_opts,
                   verbosity, tunnels, destinations, usage_shown, stderr, log, tty>>

\* Triage with the engine run again after a failure that is reported.
Triage_Retry ==
    /\ pc = "triage"
    /\ \E connected \in BOOLEAN :
          /\ tty' = IF connected THEN "yes" ELSE "no"
          /\ log' = Append(log, HandleFailure(raised, connected).record)
          /\ IF HandleFailure(raised, connected).status = 0
             THEN pc' = "exit" /\ exit_status' = 0
             ELSE pc' = "dispatch" /\ UNCHANGED exit_status
    /\ UNCHANGED <<argv, environ, options, turn, arguments, context_opts,
                   program_opts, dest_opts, verbosity, tunnels, destinations,
                   usage_shown, stderr, raised, engine>>

\* Lines 118 to 136: the handler of the second try block.
Triage ==
    /\ pc = "triage"
    /\ \E connected \in BOOLEAN :
          /\ tty' = IF connected THEN "yes" ELSE "no"
          /\ log' = Append(log, HandleFailure(raised, connected).record)
          /\ exit_status' = HandleFailure(raised, connected).status
    /\ pc' = "exit"
    /\ UNCHANGED <<argv, environ, options, turn, arguments, context_opts,
                   program_opts, dest_opts, verbosity, tunnels, destinations,
                   usage_shown, stderr, raised, engine>>

Next == ParseArgv \/ ProcessOption \/ Positionals \/ Dispatch \/ Triage

(***************************************************************************)
(* The initial states: a command line over a pool of arguments and an      *)
(* environment, main() about to start with its three empty dicts.          *)
(***************************************************************************)
CommandLines(pool) == UNION {[1..n -> pool] : n \in 0..MaxArgs}

Environments == {EmptyDict,
                 [k \in {"RSYNC_MODULE_PATH"} |-> ""],
                 [k \in {"RSYNC_MODULE_PATH"} |-> "backups/laptop"]}

\* Lines 30 to 37: main() is entered, nothing parsed or built yet.
Entered ==
    /\ pc = "getopt"
    /\ options = <<>>
    /\ turn = 1
    /\ arguments = <<>>
    /\ context_opts = EmptyDict
    /\ program_opts = EmptyDict
    /\ dest_opts = EmptyDict
    /\ verbosity = 0
    /\ tunnels = 0
    /\ destinations = 0
    /\ usage_shown = 0
    /\ stderr = <<>>
    /\ log = <<>>
    /\ raised = ""
    /\ engine = [built |-> 0, options |-> EmptyDict, executed |-> 0]
    /\ tty = "unasked"
    /\ exit_status = -1

InitOver(pool) ==
    /\ argv \in CommandLines(pool)
    /\ environ \in Environments
    /\ Entered

\* Action flags among other flags, a rejected ionice class, two positionals.
Pool == {"-b", "-s", "--rotate", "-n", "-h", "--ionice=Bad", "/src", "/mnt/backup"}

Init == InitOver(Pool)

Spec == Init /\ [][Next]_vars

\* Every kind of usage error: an unknown flag, a flag without its value ("-t"
\* in last place), a rejected ionice class, a port that is no number, and
\* three positionals; and what precedes or follows them.
UsagePool == {"-z", "-t", "--ionice=Bad", "--ionice= IDLE", "-tu@h:x", "-b", "-h",
              "/src"}

InitUsage == InitOver(UsagePool)

SpecUsage == InitUsage /\ [][Next]_vars

\* Tunnel flags of every shape, attached and detached, and a destination.
TunnelPool == {"-talice@backup-host:2222", "-tbackup-host", "--tunnel=a@b@h:",
               "-tu:p@h:22", "-th:2:3", "-t", "/mnt/backup"}

InitTunnel == InitOver(TunnelPool)

SpecTunnel == InitTunnel /\ [][Next]_vars

\* Exclude flags, attached and detached, with a repeated pattern, among
\* other flags and a destination.
ExcludePool == {"-x*.tmp", "-x/proc", "--exclude=*.tmp", "-x", "-n", "-b", "-h",
                "/mnt/backup"}

InitExclude == InitOver(ExcludePool)

SpecExclude == InitExclude /\ [][Next]_vars

\* The command lines of at most n tokens of pool.
CommandLinesUpTo(pool, n) == UNION {[1..m -> pool] : m \in 0..n}

MaxFlags == 3

\* One spelling of each of the three action flags and of each of the other
\* flags of the loop.
FlagPool == {"-b", "--snapshot", "-r", "-m/mnt", "--crypto=/dev/sdb",
             "-tbackup-host", "--ionice=idle", "-u", "--dry-run", "-f",
             "--exclude=*.tmp", "--multi-fs", "--disable-notifications", "-v",
             "--quiet", "-h"}

\* Command lines of flags only, with the module path in the environment, so
\* that the program goes on to the engine without a positional argument.
InitFlags ==
    /\ argv \in CommandLinesUpTo(FlagPool, MaxFlags)
    /\ environ = [k \in {"RSYNC_MODULE_PATH"} |-> "backups/laptop"]
    /\ Entered

SpecFlags == InitFlags /\ [][Next]_vars

\* The option names the tables of gnu_getopt declare, as getopt returns them.
DeclaredShort ==
    {"-" \o Char(ShortOpts, i) : i \in {j \in 1..Len(ShortOpts) : Char(ShortOpts, j) # ":"}}

DeclaredLong ==
    {"--" \o (IF EndsWith(LongOpts[i], "=")
              THEN SubSeq(LongOpts[i], 1, Len(LongOpts[i]) - 1)
              ELSE LongOpts[i]) : i \in 1..Len(LongOpts)}

DeclaredOptions == DeclaredShort \cup DeclaredLong

MaxTable == 2

\* Every declared option as a token of the command line, with the value
\* "idle" attached where the table asks for one; two abbreviated long
\* options; a letter the table does not declare.
TablePool ==
    {"-" \o Char(ShortOpts, i) \o (IF ShortHasArg(Char(ShortOpts, i)) = "yes" THEN "idle" ELSE "") :
        i \in {j \in 1..Len(ShortOpts) : Char(ShortOpts, j) # ":"}}
    \cup {"--" \o LongOpts[i] \o (IF EndsWith(LongOpts[i], "=") THEN "idle" ELSE "") :
        i \in 1..Len(LongOpts)}
    \cup {"--dry", "--ex=idle", "-y"}

InitTable ==
    /\ argv \in CommandLinesUpTo(TablePool, MaxTable)
    /\ environ = [k \in {"RSYNC_MODULE_PATH"} |-> "backups/laptop"]
    /\ Entered

SpecTable == InitTable /\ [][Next]_vars

(***************************************************************************)
(* The command line as the claims speak of it: the flags and the           *)
(* positional arguments of the invocation.                                 *)
(***************************************************************************)
\* getopt accepted the command line.
Parsed == pc # "getopt" /\ raised # "GetoptError"

\* The flags of the command line, once parsed.
Flags == options

\* The positional arguments of the command line.
Positional == GnuGetopt(argv).args

FlagNames(key) ==
    IF key = "backup_enabled" THEN {"-b", "--backup"}
    ELSE IF key = "snapshot_enabled" THEN {"-s", "--snapshot"}
    ELSE IF key = "rotate_enabled" THEN {"-r", "--rotate"}
    ELSE IF key = "help" THEN {"-h", "--help"}
    ELSE IF key = "ionice" THEN {"-i", "--ionice"}
    ELSE IF key = "tunnel" THEN {"-t", "--tunnel"}
    ELSE IF key = "exclude" THEN {"-x", "--exclude"}
    ELSE {}

\* The flag in place i names key.
IsFlag(i, key) == Flags[i][1] \in FlagNames(key)

\* Some flag of the command line names key.
Named(key) == \E i \in 1..Len(Flags) : IsFlag(i, key)

\* The loop over the options has run to its end.
OptionsProcessed ==
    \/ pc = "options" /\ turn > Len(options)
    \/ pc \in {"dispatch", "triage"}
    \/ pc = "exit" /\ engine.executed > 0

\* The engine failed with exception class e and the failure has been handled.
EngineFailed(e) == pc = "exit" /\ engine.executed > 0 /\ raised = e

Logged(level) == \E i \in 1..Len(log) : log[i].level = level

TraceLogged == \E i \in 1..Len(log) : log[i].exc_info

(***************************************************************************)
(* C1: once the loop over the options has run to its end, if some flag of  *)
(* the command line names an action then all three action keys are in      *)
(* program_opts, true exactly for the actions some flag names; if no flag  *)
(* names an action, none of the three keys is in program_opts.             *)
(***************************************************************************)
C1_ExplicitActions ==
    OptionsProcessed =>
        IF \E a \in ActionKeys : Named(a)
        THEN \A a \in ActionKeys : Has(program_opts, a) /\ program_opts[a] = Named(a)
        ELSE \A a \in ActionKeys : ~Has(program_opts, a)

\* -b, -s and another flag in some order: backup and snapshot true, rotate false.
C1_Witness ==
    /\ OptionsProcessed
    /\ Named("backup_enabled") /\ Named("snapshot_enabled") /\ ~Named("rotate_enabled")
    /\ Has(program_opts, "dry_run")
    /\ Has(program_opts, "rotate_enabled") /\ ~program_opts["rotate_enabled"]
    /\ program_opts["backup_enabled"] /\ program_opts["snapshot_enabled"]

(***************************************************************************)
(* C2: when execute() failed with MissingBackupDiskError: attached to a    *)
(* terminal, an error record is logged and the exit status is 1; not       *)
(* attached, an info record is logged, no error record is, and the exit    *)
(* status is 0.                                                            *)
(***************************************************************************)
C2_MissingDisk ==
    EngineFailed("MissingBackupDiskError") =>
        /\ tty = "yes" => Logged("error") /\ exit_status = 1
        /\ tty = "no" =>
              /\ log[Len(log)].level = "info"
              /\ ~Logged("error")
              /\ exit_status = 0

C2_Witness ==
    /\ EngineFailed("MissingBackupDiskError")
    /\ tty = "no"
    /\ exit_status = 0
    /\ log[Len(log)].level = "info"

(***************************************************************************)
(* C3: when execute() failed with an exception that is no                  *)
(* RsyncSystemBackupError, the exit status is 1 and an error record with   *)
(* the traceback is logged, terminal or not; when it failed with a         *)
(* RsyncSystemBackupError that is not silenced, the exit status is 1 and   *)
(* an error record without traceback is logged. A traceback is logged if   *)
(* and only if the exception is no RsyncSystemBackupError.                 *)
(***************************************************************************)
C3_TraceIffUnexpected ==
    \A e \in EngineOutcomes \ {"returned"} :
        EngineFailed(e) =>
            LET domain == IsInstance(e, "RsyncSystemBackupError")
                silenced == e = "MissingBackupDiskError" /\ tty = "no"
                last == log[Len(log)]
            IN  /\ ~domain => exit_status = 1 /\ last.level = "error" /\ last.exc_info
                /\ domain /\ ~silenced =>
                      exit_status = 1 /\ last.level = "error" /\ ~last.exc_info
                /\ TraceLogged <=> ~domain

\* An unexpected exception with no terminal attached: still status 1 and a traceback.
C3_Witness ==
    /\ EngineFailed("Exception")
    /\ tty = "no"
    /\ exit_status = 1
    /\ TraceLogged

\* The loop rejects the value of the flag in place i: an ionice class that is
\* not accepted, or a tunnel whose port is no number.
Rejected(i) ==
    \/ IsFlag(i, "ionice") /\ Strip(Lower(Flags[i][2])) \notin IoniceClasses
    \/ /\ IsFlag(i, "tunnel")
       /\ LET port_number == Partition(RPartition(Flags[i][2], "@")[3], ":")[3]
          IN  port_number # "" /\ ~ParseInt(port_number).ok

\* The loop stops at some flag: a help flag or a flag whose value is rejected.
LoopCutShort == \E i \in 1..Len(Flags) : IsFlag(i, "help") \/ Rejected(i)

\* The flag at which the loop stops, when LoopCutShort.
Stop ==
    CHOOSE i \in 1..Len(Flags) :
        /\ IsFlag(i, "help") \/ Rejected(i)
        /\ \A j \in 1..(i - 1) : ~(IsFlag(j, "help") \/ Rejected(j))

\* The places before place k that hold a flag of one of the kinds in keys.
Before(k, keys) == {j \in 1..(k - 1) : \E key \in keys : IsFlag(j, key)}

\* The run ended with the message of a usage error and status 1, the source
\* context and the engine never built.
ReportedAsUsageError ==
    /\ pc = "exit"
    /\ stderr = <<"Error: " \o raised>>
    /\ exit_status = 1
    /\ ~TraceLogged
    /\ ~Has(program_opts, "source_context")
    /\ engine.built = 0
    /\ engine.executed = 0

(***************************************************************************)
(* C4: when main() has ended, the exit status is 0 or 1, and it is 0       *)
(* exactly when execute() returned, or a MissingBackupDiskError was        *)
(* skipped with no terminal attached, or the usage text was shown (for a   *)
(* help flag, or for no positional argument and no RSYNC_MODULE_PATH).     *)
(***************************************************************************)
C4_ExitStatus ==
    pc = "exit" =>
        LET returned == engine.executed = 1 /\ raised = ""
            skipped == EngineFailed("MissingBackupDiskError") /\ tty = "no"
            usage == usage_shown > 0
        IN  /\ exit_status \in {0, 1}
            /\ exit_status = 0 <=> (returned \/ skipped \/ usage)
            /\ usage => \/ Named("help")
                        \/ Positional = <<>> /\ ModulePath(environ) = ""
            /\ stderr # <<>> => exit_status = 1

\* The usage text for a command line without destination, and status 0.
C4_Witness ==
    /\ pc = "exit"
    /\ exit_status = 0
    /\ usage_shown = 1
    /\ ~Named("help")
    /\ Len(Flags) > 0

(***************************************************************************)
(* C5 as claimed: every invocation with three or more positional           *)
(* arguments ends with the arity error and status 1, the engine never      *)
(* invoked, whatever the flags.                                            *)
(***************************************************************************)
C5_Original ==
    pc = "exit" /\ Parsed /\ Len(Positional) >= 3 =>
        raised = ArityError /\ exit_status = 1 /\ engine.executed = 0

(***************************************************************************)
(* C5, amended: an invocation with three or more positional arguments      *)
(* never builds or invokes the engine; when no flag is a help flag and no  *)
(* flag has a rejected value, it ends with the arity error reported on     *)
(* stderr and status 1.                                                    *)
(***************************************************************************)
C5_ArityError ==
    Parsed /\ Len(Positional) >= 3 =>
        /\ engine.built = 0 /\ engine.executed = 0 /\ destinations = 0
        /\ pc = "exit" /\ ~LoopCutShort =>
              raised = ArityError /\ ReportedAsUsageError

\* Three positional arguments with a flag among them.
C5_Witness ==
    /\ pc = "exit"
    /\ raised = ArityError
    /\ Len(Positional) = 3
    /\ Len(Flags) > 0
    /\ exit_status = 1

(***************************************************************************)
(* C6 as claimed: when the ionice validation error is raised, no action    *)
(* key is in program_opts and no tunnel and no destination has been built. *)
(***************************************************************************)
C6_Original ==
    raised = IoniceError =>
        /\ \A a \in ActionKeys : ~Has(program_opts, a)
        /\ tunnels = 0
        /\ destinations = 0

(***************************************************************************)
(* C6, amended: when the ionice validation error is raised, nothing of the *)
(* positional arguments has been resolved (no source, no destination       *)
(* expression, no Destination built) and the engine is not built; the      *)
(* action keys are in program_opts exactly when an action flag precedes    *)
(* the rejected ionice flag, and the tunnels built are those of the tunnel *)
(* flags that precede it. An invocation with a rejected ionice class never *)
(* builds a Destination or the engine.                                     *)
(***************************************************************************)
C6_IoniceFailsFast ==
    /\ raised = IoniceError =>
          /\ IsFlag(turn, "ionice") /\ Rejected(turn)
          /\ destinations = 0
          /\ ~Has(program_opts, "source")
          /\ ~Has(program_opts, "destination")
          /\ ~Has(dest_opts, "expression")
          /\ \A a \in ActionKeys :
                Has(program_opts, a) <=> Before(turn, ActionKeys) # {}
          /\ tunnels = Cardinality(Before(turn, {"tunnel"}))
    /\ (Parsed /\ \E i \in 1..Len(Flags) : IsFlag(i, "ionice") /\ Rejected(i)) =>
          destinations = 0 /\ engine.built = 0 /\ engine.executed = 0

\* The rejected ionice flag after an action flag, with a positional argument.
C6_Witness ==
    /\ raised = IoniceError
    /\ Has(program_opts, "backup_enabled")
    /\ Positional # <<>>
    /\ destinations = 0

(***************************************************************************)
(* C7 as claimed: every invocation with a help flag shows the usage text   *)
(* and ends with status 0, the engine never built or executed.             *)
(***************************************************************************)
C7_Original ==
    pc = "exit" /\ Parsed /\ Named("help") =>
        usage_shown > 0 /\ exit_status = 0 /\ engine.built = 0 /\ engine.executed = 0

(***************************************************************************)
(* C7, amended: an invocation with a help flag never builds or executes    *)
(* the engine; when no flag before the first help flag has a rejected      *)
(* value, the usage text is shown once, nothing is reported on stderr and  *)
(* the exit status is 0, whatever else is on the command line.             *)
(***************************************************************************)
C7_Help ==
    Parsed /\ Named("help") =>
        /\ engine.built = 0 /\ engine.executed = 0
        /\ pc = "exit" /\ IsFlag(Stop, "help") =>
              usage_shown = 1 /\ exit_status = 0 /\ stderr = <<>>

\* The help flag after another flag, with a positional argument.
C7_Witness ==
    /\ pc = "exit"
    /\ Named("help") /\ ~IsFlag(1, "help")
    /\ Positional # <<>>
    /\ usage_shown = 1
    /\ exit_status = 0

(***************************************************************************)
(* C8: a run with a usage error (getopt rejects the command line, the loop *)
(* rejects the value of an ionice or tunnel flag before any help flag, or  *)
(* the loop ends and more than two positional arguments are left) ends     *)
(* with the message on stderr, no traceback, status 1, and neither the     *)
(* source context nor the engine built or executed; and nothing else is    *)
(* reported on stderr. When the port of a tunnel flag is rejected, the     *)
(* tunnels built are those of the tunnel flags before it.                  *)
(***************************************************************************)
C8_UsageErrors ==
    /\ stderr # <<>> => ReportedAsUsageError
    /\ pc = "exit" =>
          LET usage_error ==
                \/ ~GnuGetopt(argv).ok
                \/ LoopCutShort /\ Rejected(Stop)
                \/ Parsed /\ ~LoopCutShort /\ Len(Positional) > 2
          IN  usage_error <=> ReportedAsUsageError
    /\ raised = PortError =>
          /\ IsFlag(turn, "tunnel")
          /\ tunnels = Cardinality(Before(turn, {"tunnel"}))
          /\ Has(dest_opts, "ssh_tunnel") <=> Before(turn, {"tunnel"}) # {}

\* The port of the second tunnel flag is rejected: one tunnel, of the first flag.
C8_Witness ==
    /\ raised = PortError
    /\ pc = "exit"
    /\ tunnels = 1
    /\ exit_status = 1

(***************************************************************************)
(* C9: execute() is invoked at most once in a run, and exactly once if and *)
(* only if getopt accepts the command line, no flag is a help flag or has  *)
(* a rejected value, and there are one or two positional arguments, or     *)
(* none and RSYNC_MODULE_PATH is set and not empty.                        *)
(***************************************************************************)
C9_ExecuteOnce ==
    /\ engine.executed <= 1
    /\ engine.built = engine.executed
    /\ pc = "exit" =>
          (engine.executed = 1 <=>
              /\ GnuGetopt(argv).ok
              /\ ~LoopCutShort
              /\ Len(Positional) <= 2
              /\ Len(Positional) >= 1 \/ ModulePath(environ) # "")

\* execute() failed once, on a command line without positional argument.
C9_Witness ==
    /\ pc = "exit"
    /\ engine.executed = 1
    /\ raised = "Exception"
    /\ exit_status = 1
    /\ Positional = <<>>

(***************************************************************************)
(* C10: of two positional arguments the first is stored as source and the  *)
(* second as the expression of the destination, as given; one positional   *)
(* argument is the expression of the destination, as given, and the        *)
(* options the engine gets have no source. Whatever the flags.             *)
(***************************************************************************)
C10_Positionals ==
    engine.built = 1 =>
        /\ Len(Positional) = 2 =>
              /\ Has(engine.options, "source")
              /\ engine.options["source"] = Positional[1]
              /\ engine.options["destination"]["expression"] = Positional[2]
        /\ Len(Positional) = 1 =>
              /\ ~Has(engine.options, "source")
              /\ engine.options["destination"]["expression"] = Positional[1]

\* Two different positional arguments and a flag, handed to the engine.
C10_Witness ==
    /\ engine.built = 1
    /\ Len(Positional) = 2 /\ Positional[1] # Positional[2]
    /\ Len(Flags) > 0
    /\ engine.options["source"] = Positional[1]

(***************************************************************************)
(* C11: a run that gets past the options (getopt accepts the command line, *)
(* no help flag, no rejected value) with no positional argument: when      *)
(* RSYNC_MODULE_PATH is set and not empty, the engine is built and         *)
(* executed with options that hold no destination; when it is unset or     *)
(* empty, the usage text is shown, the exit status is 0 and the engine is  *)
(* never built or executed.                                                *)
(***************************************************************************)
C11_NoPositional ==
    pc = "exit" /\ Parsed /\ ~LoopCutShort /\ Positional = <<>> =>
        IF Has(environ, "RSYNC_MODULE_PATH") /\ environ["RSYNC_MODULE_PATH"] # ""
        THEN /\ engine.built = 1 /\ engine.executed = 1
             /\ ~Has(engine.options, "destination")
             /\ destinations = 0
             /\ usage_shown = 0
        ELSE /\ usage_shown = 1
             /\ exit_status = 0
             /\ stderr = <<>>
             /\ engine.built = 0 /\ engine.executed = 0

\* RSYNC_MODULE_PATH set but empty, flags and no positional: usage, status 0.
C11_Witness ==
    /\ pc = "exit"
    /\ Has(environ, "RSYNC_MODULE_PATH") /\ environ["RSYNC_MODULE_PATH"] = ""
    /\ Len(Flags) > 0 /\ ~LoopCutShort
    /\ Positional = <<>>
    /\ usage_shown = 1
    /\ exit_status = 0

(***************************************************************************)
(* C13: in every state, before, during and after the loop over the         *)
(* options, the three action keys are all in program_opts or none of them  *)
(* is; the same holds of the options the engine was built with.            *)
(***************************************************************************)
C13_AllOrNone ==
    \A opts \in {program_opts, engine.options} :
        Cardinality(ActionKeys \cap DOMAIN opts) \in {0, Cardinality(ActionKeys)}

\* In the middle of the loop, after one action flag: the three keys, two of them false.
C13_Witness ==
    /\ pc = "options"
    /\ turn = 2 /\ turn <= Len(options)
    /\ IsFlag(1, "snapshot_enabled")
    /\ ActionKeys \subseteq DOMAIN program_opts
    /\ program_opts["snapshot_enabled"]
    /\ ~program_opts["backup_enabled"] /\ ~program_opts["rotate_enabled"]

\* tunnel is what the value of a tunnel flag stands for: the user is the text
\* before the last "@" (empty without one), the alias the text from there to
\* the first ":" that follows, the port the integer after that ":", absent
\* when there is no ":" or nothing after it; the remote port is RSYNCD_PORT.
IsSplitOf(value, tunnel) ==
    \E i \in 0..Len(value) :
        /\ i = 0 => \A n \in 1..Len(value) : Char(value, n) # "@"
        /\ i > 0 => Char(value, i) = "@"
                    /\ \A n \in (i + 1)..Len(value) : Char(value, n) # "@"
        /\ LET rest == SubSeq(value, i + 1, Len(value)) IN
           \E j \in 0..Len(rest) :
               /\ j = 0 => \A n \in 1..Len(rest) : Char(rest, n) # ":"
               /\ j > 0 => Char(rest, j) = ":"
                           /\ \A n \in 1..(j - 1) : Char(rest, n) # ":"
               /\ LET after == IF j = 0 THEN "" ELSE SubSeq(rest, j + 1, Len(rest))
                  IN  /\ tunnel["ssh_user"] = (IF i = 0 THEN "" ELSE SubSeq(value, 1, i - 1))
                      /\ tunnel["ssh_alias"] = (IF j = 0 THEN rest ELSE SubSeq(rest, 1, j - 1))
                      /\ tunnel["remote_port"] = RSYNCD_PORT
                      /\ Has(tunnel, "port") <=> after # ""
                      /\ after # "" => tunnel["port"] = ParseInt(after).value
                      /\ DOMAIN tunnel \subseteq
                            {"ssh_user", "ssh_alias", "remote_port", "port"}

\* The place of the last tunnel flag, when there is one.
LastTunnel ==
    CHOOSE i \in 1..Len(Flags) :
        IsFlag(i, "tunnel") /\ \A j \in (i + 1)..Len(Flags) : ~IsFlag(j, "tunnel")

(***************************************************************************)
(* C12: the tunnel built for a tunnel flag is the split of its value: user *)
(* before the last "@", alias up to the first ":" after it, port the       *)
(* integer after that ":" and absent without it; the remote port is always *)
(* RSYNCD_PORT. "alice@backup-host:2222" gives alice, backup-host, 2222;   *)
(* "backup-host" gives an empty user, backup-host and no port.             *)
(***************************************************************************)
C12_TunnelSplit ==
    pc = "options" /\ turn > 1 /\ IsFlag(turn - 1, "tunnel") =>
        LET value == Flags[turn - 1][2]
            tunnel == dest_opts["ssh_tunnel"]
        IN  /\ IsSplitOf(value, tunnel)
            /\ value = "alice@backup-host:2222" =>
                  tunnel = [ssh_user |-> "alice", ssh_alias |-> "backup-host",
                            remote_port |-> 873, port |-> 2222]
            /\ value = "backup-host" =>
                  tunnel = [ssh_user |-> "", ssh_alias |-> "backup-host",
                            remote_port |-> 873]

\* A value with two "@" and nothing after the ":": the user holds the first "@".
C12_Witness ==
    /\ pc = "options" /\ turn > 1 /\ IsFlag(turn - 1, "tunnel")
    /\ Flags[turn - 1][2] = "a@b@h:"
    /\ dest_opts["ssh_tunnel"]["ssh_user"] = "a@b"
    /\ dest_opts["ssh_tunnel"]["ssh_alias"] = "h"
    /\ ~Has(dest_opts["ssh_tunnel"], "port")

(***************************************************************************)
(* C16: the options the engine is built with hold a tunnel (in their       *)
(* destination) if and only if the command line has a tunnel flag and a    *)
(* positional argument, and then it is the tunnel of the last tunnel flag. *)
(* With no positional argument the options hold no destination and no      *)
(* tunnel: a command line of tunnel flags alone gives the engine what an   *)
(* empty command line gives it.                                            *)
(***************************************************************************)
C16_TunnelHandedOver ==
    engine.built = 1 =>
        LET opts == engine.options
            handed == Has(opts, "destination") /\ Has(opts["destination"], "ssh_tunnel")
        IN  /\ handed <=> (Named("tunnel") /\ Positional # <<>>)
            /\ handed => IsSplitOf(Flags[LastTunnel][2],
                                   opts["destination"]["ssh_tunnel"])
            /\ ~Has(opts, "ssh_tunnel")
            /\ Positional = <<>> =>
                  /\ ~Has(opts, "destination")
                  /\ (\A i \in 1..Len(Flags) : IsFlag(i, "tunnel")) =>
                        opts = [source_context |-> create_context(EmptyDict)]

\* Two tunnel flags with different values and a positional: the last one is handed over.
C16_Witness ==
    /\ engine.built = 1
    /\ Positional # <<>>
    /\ Len(Flags) = 2 /\ IsFlag(1, "tunnel") /\ IsFlag(2, "tunnel")
    /\ Flags[1][2] = "alice@backup-host:2222" /\ Flags[2][2] = "backup-host"
    /\ engine.options["destination"]["ssh_tunnel"]["ssh_user"] = ""

\* The pair of a flag is an exclude flag.
IsExcludePair(pair) == pair[1] \in FlagNames("exclude")

\* The values of the exclude flags, in the order of the command line.
ExcludeValues ==
    LET pairs == SelectSeq(Flags, IsExcludePair)
    IN  [i \in 1..Len(pairs) |-> pairs[i][2]]

(***************************************************************************)
(* C14: once the loop over the options has run to its end, exclude_list is *)
(* the sequence of the values of the exclude flags in the order of the     *)
(* command line, repeated values kept, whatever flags stand between them;  *)
(* with no exclude flag the key is not in program_opts. The engine is      *)
(* built with that list.                                                   *)
(***************************************************************************)
C14_ExcludeList ==
    /\ OptionsProcessed =>
          IF ExcludeValues = <<>>
          THEN ~Has(program_opts, "exclude_list")
          ELSE Has(program_opts, "exclude_list")
               /\ program_opts["exclude_list"] = ExcludeValues
    /\ engine.built = 1 /\ ExcludeValues # <<>> =>
          engine.options["exclude_list"] = ExcludeValues

\* A pattern, another one, the first again, with a flag between them.
C14_Witness ==
    /\ OptionsProcessed
    /\ Len(Flags) = 4 /\ ~IsFlag(2, "exclude")
    /\ Has(program_opts, "exclude_list")
    /\ program_opts["exclude_list"] = <<"*.tmp", "/proc", "*.tmp">>

\* The turn of the loop that is about to run processes a flag of action a.
Enabling(a) == pc = "options" /\ turn <= Len(Flags) /\ IsFlag(turn, a)

(***************************************************************************)
(* C15 as stated: a call enable_explicit_action(bag, a) changes the value  *)
(* of no action key that is in bag already, the key a included.            *)
(***************************************************************************)
C15_Original ==
    [][\A a \in ActionKeys : Enabling(a) =>
          \A k \in ActionKeys \cap DOMAIN program_opts :
              program_opts'[k] = program_opts[k]]_vars

(***************************************************************************)
(* C15: a call enable_explicit_action(bag, a) changes the value of no      *)
(* action key other than a that is in bag already, be it true from an      *)
(* earlier flag or the implicit false of an earlier call; the other action *)
(* keys not in bag become false; the key a itself becomes true whatever it *)
(* held, the implicit false of an earlier call included.                   *)
(***************************************************************************)
C15_OthersKept ==
    [][\A a \in ActionKeys : Enabling(a) =>
          /\ program_opts'[a] = TRUE
          /\ \A k \in ActionKeys \ {a} :
                program_opts'[k] = IF Has(program_opts, k) THEN program_opts[k] ELSE FALSE]_vars

\* -b, then -s, then -r: the snapshot flag has turned the implicit false of
\* snapshot_enabled into true and kept backup_enabled true, and the rotate flag
\* is about to run on a bag holding all three keys.
C15_Witness ==
    /\ Enabling("rotate_enabled")
    /\ turn = 3 /\ IsFlag(1, "backup_enabled") /\ IsFlag(2, "snapshot_enabled")
    /\ program_opts["backup_enabled"] /\ program_opts["snapshot_enabled"]
    /\ program_opts["rotate_enabled"] = FALSE

\* The turn of the loop that is about to run processes flag number turn.
Running == pc = "options" /\ turn <= Len(Flags)

\* Flag number i is one of the three explicit action flags.
ActionFlag(i) == \E a \in ActionKeys : IsFlag(i, a)

\* The entries of opts under the three action keys, and the other entries.
ActionEntries(opts) == [k \in DOMAIN opts \cap ActionKeys |-> opts[k]]

OtherEntries(opts) == [k \in DOMAIN opts \ ActionKeys |-> opts[k]]

(***************************************************************************)
(* C17: the turn of the loop that processes an explicit action flag leaves *)
(* every entry of program_opts other than the three action keys, and the   *)
(* destination options, as they were; the turn that processes any other    *)
(* flag (mount, crypto, tunnel, ionice, no-sudo, dry-run, force, exclude,  *)
(* multi-fs, disable-notifications, verbose, quiet, help) leaves the three *)
(* action keys as they were, absent or present with the same value.        *)
(***************************************************************************)
C17_Frame ==
    [][Running =>
          IF ActionFlag(turn)
          THEN /\ OtherEntries(program_opts') = OtherEntries(program_opts)
               /\ dest_opts' = dest_opts
          ELSE ActionEntries(program_opts') = ActionEntries(program_opts)]_vars

\* A mount point, then the rotate flag, then a tunnel: the action flag ran on
\* a map holding another entry, the tunnel flag on one holding the action keys.
C17_Witness ==
    /\ pc = "options" /\ turn = 4
    /\ Flags[1][1] = "-m" /\ IsFlag(2, "rotate_enabled") /\ IsFlag(3, "tunnel")
    /\ program_opts["mount_point"] = "/mnt"
    /\ program_opts["rotate_enabled"] /\ ~program_opts["backup_enabled"]
    /\ Has(dest_opts, "ssh_tunnel")

Unhandled == "Exception: Unhandled option! (programming error)"

\* The branches of the chain whose test option passes.
Matching(option) == {i \in 1..Len(BranchGuards) : option \in BranchGuards[i]}

(***************************************************************************)
(* C18: every short and long option the getopt tables declare passes the   *)
(* test of exactly one branch of the chain; getopt returns declared        *)
(* options only; so on no command line is the 'Unhandled option!           *)
(* (programming error)' exception raised.                                  *)
(***************************************************************************)
C18_NoUnhandled ==
    /\ \A option \in DeclaredOptions : Cardinality(Matching(option)) = 1
    /\ \A i \in 1..Len(Flags) : Flags[i][1] \in DeclaredOptions
    /\ raised # Unhandled

\* An abbreviated --dry-run and --disable-notifications, both long options
\* without a short one, have been through the chain and the engine has run.
C18_Witness ==
    /\ pc = "exit" /\ engine.executed = 1
    /\ argv = <<"--dry", "--disable-notifications">>
    /\ Flags = <<<<"--dry-run", "">>, <<"--disable-notifications", "">>>>
    /\ program_opts["dry_run"] /\ ~program_opts["notifications_enabled"]

====
